---- MODULE Spec2Model ----
(***************************************************************************)
(* Model of src/generator/nbt/agg.py: the initial partitioner              *)
(* (build_initial_blocks), the merge helpers (merge_blocks,                *)
(* compute_merge_gain) and the greedy driver (agglomerative_merge).        *)
(*                                                                         *)
(* Python objects are modelled as an arena: `arena` is the sequence of all *)
(* Block objects ever constructed, a Block reference is its index in the   *)
(* arena and the reference None is 0.  The Python list `blocks` (the       *)
(* return value of build_initial_blocks, never appended to afterwards) is  *)
(* the sequence of references `blocks`.  An optional integer argument      *)
(* (max_blocks) is << >> for None and <<k>> for the integer k.  Indices    *)
(* into the rle list are 0-based as in the source.                         *)
(***************************************************************************)
EXTENDS Integers, Sequences, FiniteSets

\* ---------------------------------------------------------------- bounds
MaxLen == 3      \* longest rle list explored
MaxRun == 2      \* largest run-length (pixel_length) of an entry
MaxTarget == 2   \* largest block_measure_target explored (0 included)
MaxBudget == 3   \* largest integer max_blocks explored (0 included)

Colors == {"A", "B"}

None == 0

RLEEntries == [color : Colors, len : 1..MaxRun]

RECURSIVE SeqsUpTo(_, _)
SeqsUpTo(S, k) ==
    IF k = 0 THEN {<< >>}
    ELSE LET shorter == SeqsUpTo(S, k - 1)
         IN  shorter \cup {Append(s, e) : s \in {t \in shorter : Len(t) = k - 1}, e \in S}

\* The worked scenario of the specification:
\* [(A,10),(A,10),(B,10),(B,10),(A,10)] with target_measure = 20.
ScenarioRLE ==
    <<[color |-> "A", len |-> 10], [color |-> "A", len |-> 10],
      [color |-> "B", len |-> 10], [color |-> "B", len |-> 10],
      [color |-> "A", len |-> 10]>>
\* 20 is the scenario's target; 2 is the same target counted in entries;
\* 1 puts every entry in a block of its own (five initial blocks).
ScenarioTargets == {1, 2, 20}

RLEInputs == SeqsUpTo(RLEEntries, MaxLen)
Targets == 0..MaxTarget
Budgets == {<< >>} \cup {<<k>> : k \in 0..MaxBudget}

VARIABLES
    rle,                   \* argument rle
    block_measure_target,  \* argument block_measure_target
    max_blocks,            \* argument max_blocks (<< >> = None)
    pc,                    \* position in agglomerative_merge
    arena,                 \* every Block object constructed so far
    blocks,                \* the list returned by build_initial_blocks
    heap,                  \* the candidate heap (set of tuples)
    merge_id,              \* nonlocal merge_id
    current_blocks_count,  \* current_blocks_count
    final,                 \* the list `final` (returned at "done")
    outcome,               \* "running", "returned" or "raised"
    merges,                \* history: the merges performed, in order
    run,                   \* 1 = first call, 2 = repeated call
    prev                   \* what the first call did (for the repeated call)

vars == <<rle, block_measure_target, max_blocks, pc, arena, blocks, heap,
          merge_id, current_blocks_count, final, outcome, merges, run, prev>>

\* ------------------------------------------------------------- Counter
\* A Counter / dict is a function whose DOMAIN is the set of keys present.
EmptyCounter == [c \in {} |-> 0]

CounterGet(counter, c) == IF c \in DOMAIN counter THEN counter[c] ELSE 0

\* counter[c] += k
CounterAdd(counter, c, k) ==
    [x \in (DOMAIN counter) \cup {c} |->
        IF x = c THEN CounterGet(counter, x) + k ELSE counter[x]]

\* Counter(a); .update(b)
CounterUpdate(a, b) ==
    [x \in (DOMAIN a) \cup (DOMAIN b) |-> CounterGet(a, x) + CounterGet(b, x)]

\* max(counter.values()) if counter else 0
MaxValues(counter) ==
    IF DOMAIN counter = {} THEN 0
    ELSE LET vals == {counter[x] : x \in DOMAIN counter}
         IN  CHOOSE m \in vals : \A v \in vals : v <= m

\* --------------------------------------------------------------- Block
\* Block.__init__
Block(start_idx, end_idx, color_counter, total_measure) ==
    [start     |-> start_idx,
     end       |-> end_idx,
     counter   |-> color_counter,
     total     |-> total_measure,
     inherited |-> MaxValues(color_counter),
     left      |-> None,
     right     |-> None,
     alive     |-> TRUE]

\* ------------------------------------------------ build_initial_blocks
\* The element of a singleton set.  {e(x) : x \in {v}} binds x to the value
\* of v, so that an intermediate result is evaluated once.
Only(S) == CHOOSE x \in S : TRUE

\* The inner while loop: accumulate entries from index i.
RECURSIVE InnerScan(_, _, _, _, _, _)
InnerScan(r, target, start, i, counter, cur_total) ==
    IF i < Len(r) /\ (cur_total < target \/ start = i)
    THEN Only({InnerScan(r, target, start, i + 1, nxt, cur_total + 1) :
                  nxt \in {CounterAdd(counter, r[i + 1].color, 1)}})
    ELSE [i |-> i, counter |-> counter, cur_total |-> cur_total]

\* The outer while loop: the blocks appended from index i on.
RECURSIVE OuterScan(_, _, _, _)
OuterScan(r, target, i, acc) ==
    IF i < Len(r)
    THEN Only({OuterScan(r, target, s.i,
                         Append(acc, Block(i, s.i - 1, s.counter, s.cur_total))) :
                  s \in {InnerScan(r, target, i, i, EmptyCounter, 0)}})
    ELSE acc

\* The "link neighbors" loop.
LinkNeighbors(bs) ==
    [idx \in 1..Len(bs) |->
        [bs[idx] EXCEPT !.left  = IF idx > 1 THEN idx - 1 ELSE None,
                        !.right = IF idx < Len(bs) THEN idx + 1 ELSE None]]

\* Mutant of BuildInitialBlocks: the accumulator is flushed once more after
\* the scan, appending a block even when nothing is pending.
BuildInitialBlocksTrailingFlush(r, target) ==
    LinkNeighbors(Append(OuterScan(r, target, 0, << >>),
                         Block(Len(r), Len(r) - 1, EmptyCounter, 0)))

BuildInitialBlocks(r, target) == LinkNeighbors(OuterScan(r, target, 0, << >>))

\* ------------------------------------------------------- merge helpers
\* Mutant of MergeBlocks: the merged block's dominant count is taken as the
\* sum of its parents' instead of being recomputed.
MergeBlocksSummedInherited(left, right) ==
    [Block(left.start, right.end, CounterUpdate(left.counter, right.counter),
           left.total + right.total)
        EXCEPT !.inherited = left.inherited + right.inherited]

\* merge_blocks
MergeBlocks(left, right) ==
    Block(left.start, right.end, CounterUpdate(left.counter, right.counter),
          left.total + right.total)

\* Mutant of ComputeMergeGain: the merged maximum is compared with the larger
\* of the two dominant counts instead of their sum.
ComputeMergeGainAgainstLarger(left, right) ==
    MaxValues(CounterUpdate(left.counter, right.counter))
        - (IF left.inherited >= right.inherited THEN left.inherited
           ELSE right.inherited)

\* compute_merge_gain
ComputeMergeGain(left, right) ==
    MaxValues(CounterUpdate(left.counter, right.counter))
        - (left.inherited + right.inherited)

\* ------------------------------------------------- agglomerative_merge
\* max_blocks is None
IsNone(opt) == opt = << >>

\* Mutant of TupleLess: among entries of equal -gain the latest pushed
\* (largest merge_id) comes first.
TupleLessLatestFirst(c, d) ==
    \/ c.neg_gain < d.neg_gain
    \/ c.neg_gain = d.neg_gain /\ c.merge_id > d.merge_id

\* Mutant of TupleLess: the entries are ordered by -gain alone.
TupleLessByGainOnly(c, d) == c.neg_gain <= d.neg_gain

\* Python's tuple order on the heap entries (-gain, merge_id, left, right):
\* first component, then second.  merge_id is unique per entry, so the
\* comparison never reaches the Block components.
TupleLess(c, d) ==
    \/ c.neg_gain < d.neg_gain
    \/ c.neg_gain = d.neg_gain /\ c.merge_id < d.merge_id

\* heapq.heappop returns an entry that no other entry precedes.
HeapTop(h) == {c \in h : \A d \in h \ {c} : TupleLess(c, d)}

\* Mutant of PushCandidate: only candidates of gain >= 0 are pushed.
PushCandidateNonNegativeOnly(ar, hs, left, right) ==
    IF left = None \/ right = None \/ ~ar[left].alive \/ ~ar[right].alive
    THEN hs
    ELSE IF ComputeMergeGain(ar[left], ar[right]) < 0 THEN hs
    ELSE [heap     |-> hs.heap \cup {[neg_gain |-> 0 - ComputeMergeGain(ar[left], ar[right]),
                                      merge_id |-> hs.merge_id,
                                      left     |-> left,
                                      right    |-> right]},
          merge_id |-> hs.merge_id + 1]

\* push_candidate(left, right) on the pair (heap, merge_id); ar is the arena.
PushCandidate(ar, hs, left, right) ==
    IF left = None \/ right = None \/ ~ar[left].alive \/ ~ar[right].alive
    THEN hs
    ELSE [heap     |-> hs.heap \cup {[neg_gain |-> 0 - ComputeMergeGain(ar[left], ar[right]),
                                      merge_id |-> hs.merge_id,
                                      left     |-> left,
                                      right    |-> right]},
          merge_id |-> hs.merge_id + 1]

\* "push all initial neighbors": for b in blocks: if b.right: push_candidate(b, b.right)
RECURSIVE PushInitial(_, _, _, _)
PushInitial(ar, bl, k, hs) ==
    IF k > Len(bl) THEN hs
    ELSE PushInitial(ar, bl, k + 1,
                     IF ar[bl[k]].right # None
                     THEN PushCandidate(ar, hs, bl[k], ar[bl[k]].right)
                     ELSE hs)

\* Mutant of Stale: the left block's alive flag is not tested.
StaleIgnoringLeftAlive(ar, c) == ~ar[c.right].alive \/ ar[c.left].right # c.right

\* A popped candidate is skipped (continue) when it is stale.
Stale(ar, c) == ~ar[c.left].alive \/ ~ar[c.right].alive \/ ar[c.left].right # c.right

\* Mutant of StopOnGain: the budget test is strict (count < max_blocks).
StopOnGainStrictBudget(gain, mb, count) ==
    IF gain <= 0 THEN (IF IsNone(mb) THEN TRUE ELSE count < mb[1]) ELSE FALSE

\* Mutant of StopOnGain: the loop stops on any gain <= 0, budget or not.
StopOnGainIgnoringBudget(gain, mb, count) == gain <= 0

\* gain <= 0 and (max_blocks is None or current_blocks_count <= max_blocks)
StopOnGain(gain, mb, count) ==
    IF gain <= 0 THEN (IF IsNone(mb) THEN TRUE ELSE count <= mb[1]) ELSE FALSE

\* max_blocks is not None and current_blocks_count <= max_blocks
BudgetReached(mb, count) == IF IsNone(mb) THEN FALSE ELSE count <= mb[1]

\* Mutant of SpliceMerge: the right neighbour's back link is not updated
\* (R.left keeps pointing at the dead right parent).
SpliceMergeNoBackLink(ar, left, right) ==
    LET newb == Len(ar) + 1
        L    == ar[left].left
        R    == ar[right].right
        nb   == [MergeBlocks(ar[left], ar[right]) EXCEPT !.left = L, !.right = R]
    IN  [k \in 1..newb |->
            IF k = newb THEN nb
            ELSE IF k = left \/ k = right THEN [ar[k] EXCEPT !.alive = FALSE]
            ELSE IF k = L THEN [ar[k] EXCEPT !.right = newb]
            ELSE ar[k]]

\* The arena after merging the candidate's blocks: the new block is
\* constructed, linked to L and R, and its parents are marked dead.
SpliceMerge(ar, left, right) ==
    LET newb == Len(ar) + 1
        L    == ar[left].left
        R    == ar[right].right
        nb   == [MergeBlocks(ar[left], ar[right]) EXCEPT !.left = L, !.right = R]
    IN  [k \in 1..newb |->
            IF k = newb THEN nb
            ELSE IF k = left \/ k = right THEN [ar[k] EXCEPT !.alive = FALSE]
            ELSE IF k = L THEN [ar[k] EXCEPT !.right = newb]
            ELSE IF k = R THEN [ar[k] EXCEPT !.left = newb]
            ELSE ar[k]]

\* The first reference b of the list bl for which want[b] holds, or None:
\* for b in bl: if <want>: node = b; break
FirstWhere(bl, want) ==
    IF \E k \in 1..Len(bl) : want[bl[k]]
    THEN bl[CHOOSE k \in 1..Len(bl) : want[bl[k]] /\ \A j \in 1..(k - 1) : ~want[bl[j]]]
    ELSE None

\* while node.left: node = node.left
RECURSIVE WalkLeft(_, _)
WalkLeft(ar, node) ==
    IF ar[node].left # None THEN WalkLeft(ar, ar[node].left) ELSE node

\* while node: final.append(node); node = node.right
RECURSIVE Traverse(_, _, _)
Traverse(ar, node, acc) ==
    IF node # None THEN Traverse(ar, ar[node].right, Append(acc, node)) ELSE acc

\* "collect alive blocks in order"
CollectFinal(ar, bl) ==
    LET leftmost == [b \in 1..Len(ar) |-> ar[b].alive /\ ar[b].left = None]
        isalive  == [b \in 1..Len(ar) |-> ar[b].alive]
        first == FirstWhere(bl, leftmost)
        node  == IF first # None THEN first
                 ELSE LET any == FirstWhere(bl, isalive)
                      IN  IF any # None THEN WalkLeft(ar, any) ELSE None
    IN  Traverse(ar, node, << >>)

\* ------------------------------------------------------------- actions
NoPrev == [max_blocks |-> << >>, final |-> << >>, merges |-> << >>]

Init ==
    /\ \/ rle \in RLEInputs /\ block_measure_target \in Targets
       \/ rle = ScenarioRLE /\ block_measure_target \in ScenarioTargets
    /\ max_blocks \in Budgets
    /\ pc = "start"
    /\ arena = << >>
    /\ blocks = << >>
    /\ heap = {}
    /\ merge_id = 0
    /\ current_blocks_count = 0
    /\ final = << >>
    /\ outcome = "running"
    /\ merges = << >>
    /\ run = 1
    /\ prev = NoPrev

\* blocks = build_initial_blocks(...); if not blocks: return []
BuildEmpty ==
    /\ pc = "start"
    /\ BuildInitialBlocks(rle, block_measure_target) = << >>
    /\ pc' = "done"
    /\ outcome' = "returned"
    /\ final' = << >>
    /\ UNCHANGED <<rle, block_measure_target, max_blocks, arena, blocks, heap,
                   merge_id, current_blocks_count, merges, run, prev>>

\* blocks = build_initial_blocks(...); the initial candidates are pushed
\* and current_blocks_count = len(blocks).  (The intermediate values are
\* bound by \E over singleton sets, so that each is evaluated once.)
BuildAndSeed ==
    /\ pc = "start"
    /\ \E bs \in {BuildInitialBlocks(rle, block_measure_target)} :
       \E bl \in {[k \in 1..Len(bs) |-> k]} :
       \E hs \in {PushInitial(bs, bl, 1, [heap |-> {}, merge_id |-> 0])} :
           /\ bs # << >>
           /\ arena' = bs
           /\ blocks' = bl
           /\ heap' = hs.heap
           /\ merge_id' = hs.merge_id
           /\ current_blocks_count' = Len(bl)
    /\ pc' = "loop"
    /\ UNCHANGED <<rle, block_measure_target, max_blocks, final, outcome,
                   merges, run, prev>>

\* while heap: (false) -> fall through to the collection
HeapExhausted ==
    /\ pc = "loop"
    /\ heap = {}
    /\ pc' = "collect"
    /\ UNCHANGED <<rle, block_measure_target, max_blocks, arena, blocks, heap,
                   merge_id, current_blocks_count, final, outcome, merges, run, prev>>

\* Mutant of PopStale: the stale candidate is looked at but left on the heap.
PopStaleKeepsCandidate ==
    /\ pc = "loop"
    /\ \E c \in HeapTop(heap) : Stale(arena, c)
    /\ UNCHANGED vars

\* pop a stale candidate: continue
PopStale ==
    /\ pc = "loop"
    /\ \E c \in HeapTop(heap) :
        /\ Stale(arena, c)
        /\ heap' = heap \ {c}
    /\ UNCHANGED <<rle, block_measure_target, max_blocks, pc, arena, blocks,
                   merge_id, current_blocks_count, final, outcome, merges, run, prev>>

\* pop a valid candidate with gain <= 0 while not forced to reduce: break
PopStop ==
    /\ pc = "loop"
    /\ \E c \in HeapTop(heap) :
        /\ ~Stale(arena, c)
        /\ StopOnGain(0 - c.neg_gain, max_blocks, current_blocks_count)
        /\ heap' = heap \ {c}
    /\ pc' = "collect"
    /\ UNCHANGED <<rle, block_measure_target, max_blocks, arena, blocks,
                   merge_id, current_blocks_count, final, outcome, merges, run, prev>>

\* pop a valid candidate and perform the merge; break when the budget is reached
PopMerge ==
    /\ pc = "loop"
    /\ \E c \in HeapTop(heap) :
        /\ ~Stale(arena, c)
        /\ ~StopOnGain(0 - c.neg_gain, max_blocks, current_blocks_count)
        /\ \E ar \in {SpliceMerge(arena, c.left, c.right)} :
           \E newb \in {Len(ar)} :
           \E hs1 \in {PushCandidate(ar, [heap |-> heap \ {c}, merge_id |-> merge_id],
                                      ar[newb].left, newb)} :
           \E hs2 \in {PushCandidate(ar, hs1, newb, ar[newb].right)} :
               /\ arena' = ar
               /\ heap' = hs2.heap
               /\ merge_id' = hs2.merge_id
               /\ current_blocks_count' = current_blocks_count - 1
               /\ merges' = Append(merges, [gain   |-> 0 - c.neg_gain,
                                            left   |-> c.left,
                                            right  |-> c.right,
                                            before |-> current_blocks_count])
               /\ pc' = IF BudgetReached(max_blocks, current_blocks_count - 1)
                        THEN "collect" ELSE "loop"
    /\ UNCHANGED <<rle, block_measure_target, max_blocks, blocks, final, outcome,
                   run, prev>>

\* collect alive blocks in order; return final
Collect ==
    /\ pc = "collect"
    /\ final' = CollectFinal(arena, blocks)
    /\ outcome' = "returned"
    /\ pc' = "done"
    /\ UNCHANGED <<rle, block_measure_target, max_blocks, arena, blocks, heap,
                   merge_id, current_blocks_count, merges, run, prev>>

\* What a caller sees of the returned list.
Summary(ar, fin) ==
    [k \in 1..Len(fin) |->
        [start     |-> ar[fin[k]].start,
         end       |-> ar[fin[k]].end,
         counter   |-> ar[fin[k]].counter,
         total     |-> ar[fin[k]].total,
         inherited |-> ar[fin[k]].inherited]]

\* The caller calls agglomerative_merge again on the same rle and
\* block_measure_target, with a max_blocks of its choice.
CallAgain ==
    /\ pc = "done"
    /\ run = 1
    /\ prev' = [max_blocks |-> max_blocks,
                final      |-> Summary(arena, final),
                merges     |-> merges]
    /\ run' = 2
    /\ max_blocks' \in Budgets
    /\ pc' = "start"
    /\ arena' = << >>
    /\ blocks' = << >>
    /\ heap' = {}
    /\ merge_id' = 0
    /\ current_blocks_count' = 0
    /\ final' = << >>
    /\ outcome' = "running"
    /\ merges' = << >>
    /\ UNCHANGED <<rle, block_measure_target>>

Next ==
    \/ BuildEmpty
    \/ BuildAndSeed
    \/ HeapExhausted
    \/ PopStale
    \/ PopStop
    \/ PopMerge
    \/ Collect
    \/ CallAgain

Spec == Init /\ [][Next]_vars

\* The steps of one call.  The interpreter runs a started call to its end;
\* whether the caller calls again is the caller's choice.
Step ==
    \/ BuildEmpty
    \/ BuildAndSeed
    \/ HeapExhausted
    \/ PopStale
    \/ PopStop
    \/ PopMerge
    \/ Collect

\* One call, from its entry with any of the inputs to its return.  A later
\* call (CallAgain) starts from an entry state with the same call variables,
\* so what holds of this call holds of every call.
LiveSpec == Init /\ [][Step]_vars /\ WF_vars(Step)

\* ------------------------------------------------------ claim vocabulary
\* The run has returned.
Returned == pc = "done" /\ outcome = "returned"

\* The arguments satisfy the input contract: target_measure >= 1 and
\* max_blocks unset or >= 1 (run-lengths are >= 1 in every input explored).
ValidCall ==
    /\ block_measure_target >= 1
    /\ IF IsNone(max_blocks) THEN TRUE ELSE max_blocks[1] >= 1

\* The list fin of references is a chain over [0, n): it starts at 0, ends at
\* n - 1 and each block starts right after the previous one ends.
TilesRange(ar, fin, n) ==
    /\ Len(fin) >= 1
    /\ ar[fin[1]].start = 0
    /\ ar[fin[Len(fin)]].end = n - 1
    /\ \A k \in 1..(Len(fin) - 1) : ar[fin[k + 1]].start = ar[fin[k]].end + 1
    /\ \A k \in 1..Len(fin) : ar[fin[k]].start <= ar[fin[k]].end

\* The alive blocks of the arena.
AliveSet(ar) == {b \in 1..Len(ar) : ar[b].alive}

\* Sum of the run-lengths of the entries with (0-based) index in a..b.
RECURSIVE RunSum(_, _, _)
RunSum(r, a, b) == IF a > b THEN 0 ELSE r[a + 1].len + RunSum(r, a + 1, b)

\* Sum of f[k] over the indices k of the sequence f.
RECURSIVE SeqSum(_)
SeqSum(f) == IF f = << >> THEN 0 ELSE Head(f) + SeqSum(Tail(f))

\* (C1) Coverage: for a non-empty input the returned list is the chain of
\* alive blocks in left-to-right order, tiling [0, n) without gap or overlap,
\* also when the leftmost initial block or every initial block was merged away.
C1_Coverage ==
    (Returned /\ ValidCall /\ Len(rle) > 0) =>
        /\ TilesRange(arena, final, Len(rle))
        /\ {final[k] : k \in 1..Len(final)} = AliveSet(arena)

\* (C2) Monotonic reduction: the returned list is no longer than the initial
\* partition, and with max_blocks >= 1 it is no longer than max_blocks, unless
\* the initial partition has fewer blocks than max_blocks, in which case no
\* merge of gain <= 0 was performed.
C2_MonotonicReduction ==
    Returned =>
        /\ Len(final) <= Len(blocks)
        /\ IF IsNone(max_blocks) THEN TRUE
           ELSE IF max_blocks[1] < 1 THEN TRUE
           ELSE IF Len(blocks) < max_blocks[1]
                THEN \A k \in 1..Len(merges) : merges[k].gain > 0
                ELSE Len(final) <= max_blocks[1]

\* A run whose budget forced the partition down: three initial blocks,
\* max_blocks = 2, two blocks returned.
C2_Witness ==
    /\ Returned
    /\ max_blocks = <<2>>
    /\ Len(blocks) = 3
    /\ Len(merges) = 1
    /\ Len(final) = 2

\* (C3) Measure conservation: the totals of the returned blocks add up to the
\* sum of the run-lengths of the input, and each block's total is the sum of
\* the run-lengths of the entries in [start, end].
C3_MeasureConservation ==
    (Returned /\ ValidCall) =>
        /\ SeqSum([k \in 1..Len(final) |-> arena[final[k]].total])
               = RunSum(rle, 0, Len(rle) - 1)
        /\ \A k \in 1..Len(final) :
               arena[final[k]].total
                   = RunSum(rle, arena[final[k]].start, arena[final[k]].end)

\* The budget b is an integer at least the number of initial blocks and the
\* budget a is None.
NoOpBudgetPair(a, b) ==
    IF IsNone(a) /\ ~IsNone(b) THEN b[1] >= Len(blocks) ELSE FALSE

\* (C4) Idempotence under a no-op budget: of two calls on the same rle and
\* target, one with max_blocks = None and one with max_blocks >= the number
\* of initial blocks, both return the same block list (ranges, frequencies,
\* order) and neither performs a merge of gain <= 0.
C4_NoOpBudget ==
    (Returned /\ run = 2 /\ (\/ NoOpBudgetPair(prev.max_blocks, max_blocks)
                            \/ NoOpBudgetPair(max_blocks, prev.max_blocks))) =>
        /\ Summary(arena, final) = prev.final
        /\ \A k \in 1..Len(merges) : merges[k].gain > 0
        /\ \A k \in 1..Len(prev.merges) : prev.merges[k].gain > 0

\* A call with max_blocks = None followed by a call whose budget equals the
\* number of initial blocks, on an input with three initial blocks.
C4_Witness ==
    /\ Returned
    /\ run = 2
    /\ IsNone(prev.max_blocks)
    /\ max_blocks = <<3>>
    /\ Len(blocks) = 3
    /\ Len(final) = 3

\* (C5) Determinism: two calls with the same rle, target and max_blocks
\* perform the same sequence of merges (also among candidates of equal gain)
\* and return identical block lists.
C5_Determinism ==
    (Returned /\ run = 2 /\ max_blocks = prev.max_blocks) =>
        /\ merges = prev.merges
        /\ Summary(arena, final) = prev.final

\* A repeated call that had to choose between two queued candidates of equal
\* gain for a forced merge.
C5_Witness ==
    /\ Returned
    /\ run = 2
    /\ max_blocks = prev.max_blocks
    /\ Len(blocks) = 3
    /\ Len(merges) = 1
    /\ ComputeMergeGain(arena[1], arena[2]) = ComputeMergeGain(arena[2], arena[3])

\* (C6) Dominant correctness: every returned block's inherited count is the
\* maximum of its frequency map: some value has that count and none has more.
C6_DominantCorrect ==
    Returned =>
        \A k \in 1..Len(final) :
            LET b == arena[final[k]]
            IN  /\ \E c \in DOMAIN b.counter : b.counter[c] = b.inherited
                /\ \A c \in DOMAIN b.counter : b.counter[c] <= b.inherited

\* A returned block produced by a merge of blocks with two different values.
C6_Witness ==
    /\ Returned
    /\ \E k \in 1..Len(final) :
        /\ final[k] > Len(blocks)
        /\ Cardinality(DOMAIN arena[final[k]].counter) = 2

\* The frequency map of the whole input by run-length: value -> total
\* run-length of the entries with that value.
RunLengthTotals(r) ==
    [c \in {r[i].color : i \in 1..Len(r)} |->
        SeqSum([i \in 1..Len(r) |-> IF r[i].color = c THEN r[i].len ELSE 0])]

\* (C7) With max_blocks = 1 and a non-empty input of n entries, exactly one
\* block [0, n-1] is returned, whose frequency maps each value to its total
\* run-length over the input (scenario: [0-4] {A:30, B:20}, dominant 30).
C7_BudgetOne ==
    (Returned /\ block_measure_target >= 1 /\ max_blocks = <<1>> /\ Len(rle) > 0) =>
        /\ Len(final) = 1
        /\ arena[final[1]].start = 0
        /\ arena[final[1]].end = Len(rle) - 1
        /\ arena[final[1]].counter = RunLengthTotals(rle)
        /\ arena[final[1]].inherited = MaxValues(RunLengthTotals(rle))

\* (C8) For an empty rle, build_initial_blocks yields no block and the call
\* returns the empty list without raising, for every target and max_blocks.
C8_EmptyInput ==
    (rle = << >>) =>
        /\ BuildInitialBlocks(rle, block_measure_target) = << >>
        /\ arena = << >>
        /\ blocks = << >>
        /\ pc \in {"start", "done"}
        /\ outcome # "raised"
        /\ (pc = "done" => outcome = "returned" /\ final = << >>)

\* A call on the empty rle, with an integer budget, that has returned.
C8_Witness ==
    /\ rle = << >>
    /\ Returned
    /\ ~IsNone(max_blocks)

\* (C9) Validation fails fast: a call with target_measure <= 0 or with
\* max_blocks <= 0 ends in an error outcome before any block is built and
\* never returns a block list.
C9_FailFast ==
    (\/ block_measure_target <= 0
     \/ (IF IsNone(max_blocks) THEN FALSE ELSE max_blocks[1] <= 0)) =>
        /\ arena = << >>
        /\ outcome # "returned"
        /\ (pc = "done" => outcome = "raised")

\* The initial partition is in the arena and no merge has happened yet.
JustPartitioned == pc = "loop" /\ merges = << >> /\ Len(arena) = Len(blocks)

\* (C10) build_initial_blocks returns non-empty blocks that tile [0, n) in
\* order and are linked to their immediate neighbours; with measure taken as
\* the sum of run-lengths, every block but the last has measure >= T and
\* measure < T without its last entry.
C10_InitialPartition ==
    (JustPartitioned /\ block_measure_target >= 1) =>
        /\ TilesRange(arena, blocks, Len(rle))
        /\ \A k \in 1..Len(blocks) :
            /\ arena[k].left = (IF k > 1 THEN k - 1 ELSE None)
            /\ arena[k].right = (IF k < Len(blocks) THEN k + 1 ELSE None)
        /\ \A k \in 1..(Len(blocks) - 1) :
            /\ RunSum(rle, arena[k].start, arena[k].end) >= block_measure_target
            /\ RunSum(rle, arena[k].start, arena[k].end - 1) < block_measure_target

\* The partition exists: the run is in the merge loop or past it.
Partitioned == arena # << >> /\ pc \in {"loop", "collect", "done"}

\* (C11) At every point of the merge loop the alive blocks form one
\* doubly-linked chain partitioning [0, n): exactly one alive block has
\* left = None and it starts at 0, exactly one has right = None and it ends
\* at n - 1, and every alive block b with a right neighbour has b.right
\* alive, b.right.left = b and b.right.start = b.end + 1; following the right
\* links from the head visits every alive block.
C11_ChainInvariant ==
    Partitioned =>
        LET A     == AliveSet(arena)
            heads == {b \in A : arena[b].left = None}
            tails == {b \in A : arena[b].right = None}
        IN  /\ Cardinality(heads) = 1
            /\ \A b \in heads : arena[b].start = 0
            /\ Cardinality(tails) = 1
            /\ \A b \in tails : arena[b].end = Len(rle) - 1
            /\ \A b \in A :
                 arena[b].right # None =>
                    /\ arena[b].right \in A
                    /\ arena[arena[b].right].left = b
                    /\ arena[arena[b].right].start = arena[b].end + 1
            /\ \A b \in heads :
                 LET chain == Traverse(arena, b, << >>)
                 IN  {chain[k] : k \in 1..Len(chain)} = A

\* The loop continues after a merge whose new block has a right neighbour.
C11_Witness ==
    /\ pc = "loop"
    /\ Len(merges) >= 1
    /\ \E b \in AliveSet(arena) :
        /\ b > Len(blocks)
        /\ arena[b].right # None
        /\ arena[arena[b].right].left = b

\* The candidate (left, right) is valid in the arena ar: both blocks are
\* alive and left.right is right.
AliveAdjacent(ar, left, right) ==
    ar[left].alive /\ ar[right].alive /\ ar[left].right = right

\* One iteration of the loop, for the candidate c it pops: an invalid c is
\* discarded with the arena and the live count unchanged and no merge
\* recorded; a merge is performed only on a valid c and joins exactly its two
\* blocks, which are dead afterwards.
PopRespectsStaleness ==
    (pc = "loop" /\ heap # {}) =>
        \E c \in heap \ heap' :
            /\ ~AliveAdjacent(arena, c.left, c.right) =>
                   /\ arena' = arena
                   /\ current_blocks_count' = current_blocks_count
                   /\ merges' = merges
                   /\ pc' = "loop"
            /\ merges' # merges =>
                   /\ AliveAdjacent(arena, c.left, c.right)
                   /\ Len(merges') = Len(merges) + 1
                   /\ merges'[Len(merges')].left = c.left
                   /\ merges'[Len(merges')].right = c.right
                   /\ ~arena'[c.left].alive
                   /\ ~arena'[c.right].alive
            /\ arena' # arena => merges' # merges

\* No block is a parent of more than one merge, and the two parents of a
\* merge are different blocks.
NoSharedParents ==
    /\ \A i \in 1..Len(merges) : merges[i].left # merges[i].right
    /\ \A i, j \in 1..Len(merges) :
         i # j => {merges[i].left, merges[i].right}
                    \cap {merges[j].left, merges[j].right} = {}

\* (C12) A popped candidate (L, R) is acted on only if L and R are alive and
\* L.right is R at pop time; otherwise it is discarded without changing any
\* block, link or the live count.  Every merge joins two alive, mutually
\* adjacent blocks and no block is a parent of more than one merge.
C12_StalenessDiscipline == [](NoSharedParents) /\ [][PopRespectsStaleness]_vars

\* The loop has discarded a candidate (more pops than merges, and no stop
\* yet) after at least one merge.
C12_Witness ==
    /\ pc = "loop"
    /\ Len(merges) >= 1
    /\ merge_id - Cardinality(heap) > Len(merges)

\* Every recorded merge of gain <= 0 happened with max_blocks set and more
\* alive blocks than max_blocks before it; current_blocks_count is the
\* number of alive blocks.
NonPositiveMergesAreForced ==
    /\ \A k \in 1..Len(merges) :
         merges[k].gain <= 0 =>
            (IF IsNone(max_blocks) THEN FALSE ELSE merges[k].before > max_blocks[1])
    /\ (pc = "loop" => current_blocks_count = Cardinality(AliveSet(arena)))

\* One iteration of the loop, for the candidate c it pops: a merge records
\* c's gain and the live count before it; a valid c of gain <= 0 popped when
\* max_blocks is unset or already met ends the loop with no merge.
StopsOnNonPositiveGain ==
    (pc = "loop" /\ heap # {}) =>
        \E c \in heap \ heap' :
            /\ merges' # merges =>
                   /\ merges'[Len(merges')].gain = 0 - c.neg_gain
                   /\ merges'[Len(merges')].before = current_blocks_count
                   /\ current_blocks_count' = current_blocks_count - 1
            /\ (/\ AliveAdjacent(arena, c.left, c.right)
                /\ c.neg_gain >= 0
                /\ (IF IsNone(max_blocks) THEN TRUE
                    ELSE current_blocks_count <= max_blocks[1])) =>
                   /\ pc' = "collect"
                   /\ arena' = arena
                   /\ merges' = merges

\* (C13) A merge of gain <= 0 is performed only when max_blocks is set and
\* the number of alive blocks before the merge exceeds max_blocks; with
\* max_blocks unset no such merge is ever performed and the loop stops at the
\* first valid popped candidate of gain <= 0.
C13_ForcedMergesOnly == [](NonPositiveMergesAreForced) /\ [][StopsOnNonPositiveGain]_vars

\* A call with max_blocks = 1 that performed two forced merges of gain <= 0.
C13_Witness ==
    /\ Returned
    /\ max_blocks = <<1>>
    /\ Len(merges) = 2
    /\ merges[1].gain <= 0
    /\ merges[2].gain <= 0
    /\ merges[2].before = 2

\* merge_id is unique per queued candidate and below the next id to be given.
UniqueMergeIds ==
    /\ \A c, d \in heap : c.merge_id = d.merge_id => c = d
    /\ \A c \in heap : c.merge_id >= 0 /\ c.merge_id < merge_id

\* One iteration of the loop removes exactly one candidate, whose gain is the
\* maximum of the queue and whose merge_id is the smallest among the queued
\* candidates of that gain.
PopsBestEarliest ==
    (pc = "loop" /\ heap # {}) =>
        /\ Cardinality(heap \ heap') = 1
        /\ \A c \in heap \ heap' :
             \A d \in heap :
                /\ 0 - c.neg_gain >= 0 - d.neg_gain
                /\ (c.neg_gain = d.neg_gain => c.merge_id <= d.merge_id)

\* (C14) Every pop returns a candidate of maximum gain among those queued
\* and, among queued candidates of that gain, the one inserted earliest
\* (smallest merge_id); merge_id is unique per candidate.
C14_PopOrder == [](UniqueMergeIds) /\ [][PopsBestEarliest]_vars

\* The first pop chose between the two initial candidates of equal gain and
\* took the earlier one; the later one is still queued.
C14_Witness ==
    /\ pc = "loop"
    /\ Len(blocks) = 3
    /\ Len(merges) = 1
    /\ merges[1].left = 1
    /\ \E d \in heap : d.merge_id = 1 /\ 0 - d.neg_gain = merges[1].gain

\* At the loop head every pair of adjacent alive blocks has exactly one
\* queued candidate naming that pair; every queued candidate carries the gain
\* of its two blocks; the number of pushes (merge_id) is at most
\* (initial blocks - 1) + 2 * (accepted merges).
OneCandidatePerAdjacency ==
    /\ pc = "loop" =>
         \A l \in AliveSet(arena) :
            arena[l].right # None =>
                Cardinality({c \in heap : c.left = l /\ c.right = arena[l].right}) = 1
    /\ \A c \in heap :
         c.neg_gain = 0 - ComputeMergeGain(arena[c.left], arena[c.right])
    /\ Partitioned => merge_id <= (Len(blocks) - 1) + 2 * Len(merges)
    /\ (pc = "loop" /\ merges = << >>) =>
         /\ merge_id = Len(blocks) - 1
         /\ Cardinality(heap) = Len(blocks) - 1
         /\ \A c \in heap : c.right = c.left + 1

\* One iteration of the loop adds candidates only when it merges, at most
\* two, and only the pairs (left neighbour, new block) and (new block, right
\* neighbour).
PushesOnlyNewAdjacencies ==
    (pc = "loop") =>
        LET added == heap' \ heap
            newb  == Len(arena')
        IN  /\ merges' = merges => added = {}
            /\ merges' # merges =>
                 /\ Cardinality(added) <= 2
                 /\ merge_id' = merge_id + Cardinality(added)
                 /\ \A c \in added :
                      \/ c.left = arena'[newb].left /\ c.right = newb
                      \/ c.left = newb /\ c.right = arena'[newb].right

\* (C15) Candidates are added only for newly formed adjacencies: one per
\* initial adjacency and at most two per accepted merge, each carrying the
\* gain of its two blocks.  At every loop head each pair of adjacent alive
\* blocks has exactly one queued candidate naming that pair, and the number
\* of pushes is at most (initial blocks - 1) + 2 * (accepted merges).
C15_CandidateDiscipline == [](OneCandidatePerAdjacency) /\ [][PushesOnlyNewAdjacencies]_vars

\* A merge in the middle of the chain has pushed both of its candidates.
C15_Witness ==
    /\ pc = "loop"
    /\ Len(merges) >= 1
    /\ \E b \in AliveSet(arena) :
        /\ b > Len(blocks)
        /\ \E c, d \in heap :
            /\ c.right = b /\ c.left = arena[b].left
            /\ d.left = b /\ d.right = arena[b].right

\* Some value attains the maximum of the frequency map in both blocks.
SharedDominant(l, r) ==
    \E v \in (DOMAIN l.counter) \cap (DOMAIN r.counter) :
        l.counter[v] = l.inherited /\ r.counter[v] = r.inherited

\* Every pair of blocks of the arena ar has gain <= 0, and gain 0 exactly
\* when some value attains the maximum in both.
GainsNonPositive(ar) ==
    \A l, r \in 1..Len(ar) :
        \E g \in {ComputeMergeGain(ar[l], ar[r])} :
            /\ g <= 0
            /\ (g = 0 <=> SharedDominant(ar[l], ar[r]))

\* Whenever blocks are built (the initial partition, a merged block), every
\* pair of blocks built so far has a gain <= 0.
BuiltBlocksGainNothing == (arena' # arena) => GainsNonPositive(arena')

\* No queued candidate has a positive gain, and a run with max_blocks unset,
\* or at least the number of initial blocks, merges nothing and returns the
\* initial partition.
NoOpBudgetKeepsPartition ==
    /\ \A c \in heap : c.neg_gain >= 0
    /\ (IF IsNone(max_blocks) THEN TRUE ELSE max_blocks[1] >= Len(blocks)) =>
         /\ merges = << >>
         /\ (Returned /\ arena # << >>) =>
              /\ final = blocks
              /\ arena = BuildInitialBlocks(rle, block_measure_target)

\* (C16) compute_merge_gain is never positive: for any two blocks built so
\* far the gain is <= 0, and it is 0 exactly when some value attains the
\* maximum in both blocks.  Hence a run with max_blocks unset, or at least
\* the number of initial blocks, performs no merge and returns the initial
\* partition unchanged.
C16_GainNeverPositive == [](NoOpBudgetKeepsPartition) /\ [][BuiltBlocksGainNothing]_vars

\* A call without max_blocks returned its three initial blocks, among which
\* one adjacent pair has gain 0 and the other a negative gain.
C16_Witness ==
    /\ Returned
    /\ IsNone(max_blocks)
    /\ Len(blocks) = 3
    /\ final = blocks
    /\ ComputeMergeGain(arena[1], arena[2]) = 0
    /\ ComputeMergeGain(arena[2], arena[3]) < 0

\* The accepted merges number at most (initial blocks - 1), and the walk of
\* the collection returns no more blocks than are alive.
MergesBounded ==
    /\ Partitioned => Len(merges) <= Len(blocks) - 1
    /\ Returned => Len(final) <= Cardinality(AliveSet(arena))

\* An iteration that stays in the loop removes one candidate and adds at
\* most two, and only when it merges.
IterationShrinksQueue ==
    (pc = "loop" /\ pc' = "loop") =>
        Cardinality(heap') <=
            Cardinality(heap) - 1 + (IF merges' # merges THEN 2 ELSE 0)

\* (C17) For every input, target and max_blocks (max_blocks <= 0 included)
\* the call terminates: the call reaches its return; the accepted merges
\* number at most (initial blocks - 1); each iteration removes one candidate
\* and adds at most two, only when a merge is accepted.
C17_Terminates ==
    /\ [](MergesBounded)
    /\ [][IterationShrinksQueue]_vars
    /\ <>(pc = "done")

\* A call with max_blocks = 0 ran until the queue was empty, merging all of
\* its three or more initial blocks, and returned.
C17_Witness ==
    /\ Returned
    /\ max_blocks = <<0>>
    /\ Len(blocks) >= 3
    /\ Len(merges) = Len(blocks) - 1
    /\ heap = {}

====
